---- MODULE Spec2Model ----
(***************************************************************************)
(* weather-cli: the program of src/main.rs (geocoding fetch, weather       *)
(* fetch, display) and the rendering engine of src/weather.rs              *)
(* (WeatherData::display, display_compact, format_weather_description).    *)
(*                                                                         *)
(* Time is counted in tenths of a second since 2023-01-01T00:00:00Z, so    *)
(* that chrono's Duration::num_seconds (whole seconds, truncated toward    *)
(* zero) and Datelike::day (day of the month) are computed, not assumed.   *)
(* Option<T> is a sequence: <<>> is None and <<v>> is Some(v).             *)
(* Non-ASCII characters of the program's strings are written <U+XXXX>.     *)
(***************************************************************************)
EXTENDS Integers, Sequences, FiniteSets, TLC

VARIABLES
    pc,           \* position of main: "start", "geocoded", "fetched", "exited"
    duration,     \* args.duration
    output_mode,  \* args.output_mode
    clock,        \* the wall clock (Utc::now) of this run, in ticks
    geo,          \* the candidates get_location_data returned
    coords,       \* Option: the candidate main works with (geo[0])
    series,       \* weather_data.properties.timeseries
    result,       \* what display_compact/detailed/complete gave back
    stdout,       \* what the process printed to standard output
    exit_code,    \* Option: the exit status of the process
    trace,        \* the calls main made, in order
    code,         \* argument of format_weather_description
    description   \* Option: what format_weather_description returned

vars == <<pc, duration, output_mode, clock, geo, coords, series, result,
          stdout, exit_code, trace, code, description>>

progVars == <<pc, duration, output_mode, clock, geo, coords, series, result,
              stdout, exit_code, trace>>

----------------------------------------------------------------------------
(* Bounds of the model *)

\* longest timeseries handed to the rendering engine alone
MaxLen == 2

\* longest timeseries a modelled run of the whole program fetches
MaxFetched == 1

\* most candidates the geocoding service returns
MaxCandidates == 2

----------------------------------------------------------------------------
(* Option<T> *)

None == <<>>

Some(v) == <<v>>

IsSome(o) == Len(o) = 1

\* Seq(S) up to a length
SeqsUpTo(S, n) == UNION {[1..k -> S] : k \in 0..n}

----------------------------------------------------------------------------
(* args.rs *)

DurationType == {"Now", "Today", "Tomorrow", "Week"}

OutputMode == {"Compact", "Detailed", "Complete"}

----------------------------------------------------------------------------
(* chrono: the calendar of 2023 (not a leap year; 1 January is a Sunday) *)

\* a DateTime is a number of ticks; a tick is a tenth of a second
TicksPerSecond == 10

TicksPerDay == 24 * 60 * 60 * TicksPerSecond

MonthLengths == <<31, 28, 31, 30, 31, 30, 31, 31, 30, 31, 30, 31>>

MonthNames == <<"January", "February", "March", "April", "May", "June", "July",
                "August", "September", "October", "November", "December">>

WeekdayNames == <<"Sunday", "Monday", "Tuesday", "Wednesday", "Thursday",
                  "Friday", "Saturday">>

\* days elapsed since 1 January
DayIndex(t) == t \div TicksPerDay

RECURSIVE MonthFrom(_, _)
\* <<month, day of month>> of the day that is d days after the first of month m
MonthFrom(m, d) ==
    IF d < MonthLengths[m] THEN <<m, d + 1>> ELSE MonthFrom(m + 1, d - MonthLengths[m])

\* Datelike::month
Month(t) == MonthFrom(1, DayIndex(t))[1]

\* Datelike::day
Day(t) == MonthFrom(1, DayIndex(t))[2]

\* format("%A")
Weekday(t) == WeekdayNames[(DayIndex(t) % 7) + 1]

\* format("%H:%M")
HourMinute(t) == <<(t % TicksPerDay) \div (60 * 60 * TicksPerSecond),
                   ((t % TicksPerDay) \div (60 * TicksPerSecond)) % 60>>

\* format("%A, %d %B")
LongDate(t) == <<Weekday(t), Day(t), MonthNames[Month(t)]>>

Abs(x) == IF x < 0 THEN -x ELSE x

\* Duration::num_seconds of a difference of d ticks: whole seconds,
\* truncated toward zero
NumSeconds(d) == IF d < 0 THEN -((-d) \div TicksPerSecond) ELSE d \div TicksPerSecond

----------------------------------------------------------------------------
(* format_weather_description *)

DescriptionTable ==
    "clearsky_day" :> "<U+2600><U+FE0F> Clear Sky (Day)" @@
    "fair_day" :> "<U+1F324><U+FE0F> Fair (Day)" @@
    "partlycloudy_day" :> "<U+26C5> Partly Cloudy (Day)" @@
    "cloudy" :> "<U+2601><U+FE0F> Cloudy" @@
    "rainshowers_day" :> "<U+1F326><U+FE0F> Rain Showers (Day)" @@
    "rainshowersandthunder_day" :> "<U+26C8><U+FE0F> Rain Showers and Thunder (Day)" @@
    "sleetshowers_day" :> "<U+1F328><U+FE0F> Sleet Showers (Day)" @@
    "snowshowers_day" :> "<U+2744><U+FE0F> Snow Showers (Day)" @@
    "rain" :> "<U+1F327><U+FE0F> Rain" @@
    "heavyrain" :> "<U+1F327><U+FE0F> Heavy Rain" @@
    "heavyrainandthunder" :> "<U+26C8><U+FE0F> Heavy Rain and Thunder" @@
    "sleet" :> "<U+1F328><U+FE0F> Sleet" @@
    "snow" :> "<U+2744><U+FE0F> Snow" @@
    "snowandthunder" :> "<U+26C8><U+FE0F> Snow and Thunder" @@
    "fog" :> "<U+1F32B><U+FE0F> Fog" @@
    "sleetshowersandthunder_day" :> "<U+26C8><U+FE0F> Sleet Showers and Thunder (Day)" @@
    "snowshowersandthunder_day" :> "<U+26C8><U+FE0F> Snow Showers and Thunder (Day)" @@
    "rainandthunder" :> "<U+26C8><U+FE0F> Rain and Thunder" @@
    "sleetandthunder" :> "<U+26C8><U+FE0F> Sleet and Thunder" @@
    "lightrainshowersandthunder_day" :> "<U+26C8><U+FE0F> Light Rain Showers and Thunder (Day)" @@
    "heavyrainshowersandthunder_day" :> "<U+26C8><U+FE0F> Heavy Rain Showers and Thunder (Day)" @@
    "lightssleetshowersandthunder_day" :> "<U+26C8><U+FE0F> Light Sleet Showers and Thunder (Day)" @@
    "heavysleetshowersandthunder_day" :> "<U+26C8><U+FE0F> Heavy Sleet Showers and Thunder (Day)" @@
    "lightssnowshowersandthunder_day" :> "<U+26C8><U+FE0F> Light Snow Showers and Thunder (Day)" @@
    "heavysnowshowersandthunder_day" :> "<U+26C8><U+FE0F> Heavy Snow Showers and Thunder (Day)" @@
    "lightrainandthunder" :> "<U+26C8><U+FE0F> Light Rain and Thunder" @@
    "lightsleetandthunder" :> "<U+26C8><U+FE0F> Light Sleet and Thunder" @@
    "heavysleetandthunder" :> "<U+26C8><U+FE0F> Heavy Sleet and Thunder" @@
    "lightsnowandthunder" :> "<U+26C8><U+FE0F> Light Snow and Thunder" @@
    "heavysnowandthunder" :> "<U+26C8><U+FE0F> Heavy Snow and Thunder" @@
    "lightrainshowers_day" :> "<U+1F326><U+FE0F> Light Rain Showers (Day)" @@
    "heavyrainshowers_day" :> "<U+1F326><U+FE0F> Heavy Rain Showers (Day)" @@
    "lightsleetshowers_day" :> "<U+1F326><U+FE0F> Light Sleet Showers (Day)" @@
    "heavysleetshowers_day" :> "<U+1F326><U+FE0F> Heavy Sleet Showers (Day)" @@
    "lightsnowshowers_day" :> "<U+1F326><U+FE0F> Light Snow Showers (Day)" @@
    "heavysnowshowers_day" :> "<U+1F326><U+FE0F> Heavy Snow Showers (Day)" @@
    "lightrain" :> "<U+1F327><U+FE0F> Light Rain" @@
    "lightsleet" :> "<U+1F328><U+FE0F> Light Sleet" @@
    "heavysleet" :> "<U+1F328><U+FE0F> Heavy Sleet" @@
    "lightsnow" :> "<U+2744><U+FE0F> Light Snow" @@
    "heavysnow" :> "<U+2744><U+FE0F> Heavy Snow" @@
    "clearsky_night" :> "<U+1F319> Clear Sky (Night)" @@
    "fair_night" :> "<U+1F319> Fair (Night)" @@
    "partlycloudy_night" :> "<U+1F319><U+2601><U+FE0F>P Partly Cloudy (Night)" @@
    "rainshowers_night" :> "<U+1F326><U+FE0F> Rain Showers (Night)" @@
    "rainshowersandthunder_night" :> "<U+26C8><U+FE0F> Rain Showers and Thunder (Night)" @@
    "sleetshowers_night" :> "<U+1F328><U+FE0F> Sleet Showers (Night)" @@
    "snowshowers_night" :> "<U+2744><U+FE0F> Snow Showers (Night)" @@
    "sleetshowersandthunder_night" :> "<U+26C8><U+FE0F> Sleet Showers and Thunder (Night)" @@
    "snowshowersandthunder_night" :> "<U+26C8><U+FE0F> Snow Showers and Thunder (Night)" @@
    "lightrainshowersandthunder_night" :> "<U+26C8><U+FE0F> Light Rain Showers and Thunder (Night)" @@
    "heavyrainshowersandthunder_night" :> "<U+26C8><U+FE0F> Heavy Rain Showers and Thunder (Night)" @@
    "lightssleetshowersandthunder_night" :> "<U+26C8><U+FE0F> Light Sleet Showers and Thunder (Night)" @@
    "heavysleetshowersandthunder_night" :> "<U+26C8><U+FE0F> Heavy Sleet Showers and Thunder (Night)" @@
    "lightssnowshowersandthunder_night" :> "<U+26C8><U+FE0F> Light Snow Showers and Thunder (Night)" @@
    "heavysnowshowersandthunder_night" :> "<U+26C8><U+FE0F> Heavy Snow Showers and Thunder (Night)" @@
    "lightrainshowers_night" :> "<U+1F326><U+FE0F> Light Rain Showers (Night)" @@
    "heavyrainshowers_night" :> "<U+1F326><U+FE0F> Heavy Rain Showers (Night)" @@
    "lightsleetshowers_night" :> "<U+1F326><U+FE0F> Light Sleet Showers (Night)" @@
    "heavysleetshowers_night" :> "<U+1F326><U+FE0F> Heavy Sleet Showers (Night)" @@
    "lightsnowshowers_night" :> "<U+1F326><U+FE0F> Light Snow Showers (Night)" @@
    "heavysnowshowers_night" :> "<U+1F326><U+FE0F> Heavy Snow Showers (Night)" @@
    "clearsky_polartwilight" :> "<U+1F30C> Clear Sky (Polar Twilight)" @@
    "fair_polartwilight" :> "<U+1F30C> Fair (Polar Twilight)" @@
    "partlycloudy_polartwilight" :> "<U+1F30C> Partly Cloudy (Polar Twilight)" @@
    "rainshowers_polartwilight" :> "<U+1F30C> Rain Showers (Polar Twilight)" @@
    "rainshowersandthunder_polartwilight" :> "<U+1F30C> Rain Showers and Thunder (Polar Twilight)" @@
    "sleetshowers_polartwilight" :> "<U+1F30C> Sleet Showers (Polar Twilight)" @@
    "snowshowers_polartwilight" :> "<U+1F30C> Snow Showers (Polar Twilight)" @@
    "sleetshowersandthunder_polartwilight" :> "<U+1F30C> Sleet Showers and Thunder (Polar Twilight)" @@
    "snowshowersandthunder_polartwilight" :> "<U+1F30C> Snow Showers and Thunder (Polar Twilight)" @@
    "lightrainshowersandthunder_polartwilight" :> "<U+1F30C> Light Rain Showers and Thunder (Polar Twilight)" @@
    "heavyrainshowersandthunder_polartwilight" :> "<U+1F30C> Heavy Rain Showers and Thunder (Polar Twilight)" @@
    "lightssleetshowersandthunder_polartwilight" :> "<U+1F30C> Light Sleet Showers and Thunder (Polar Twilight)" @@
    "heavysleetshowersandthunder_polartwilight" :> "<U+1F30C> Heavy Sleet Showers and Thunder (Polar Twilight)" @@
    "lightssnowshowersandthunder_polartwilight" :> "<U+1F30C> Light Snow Showers and Thunder (Polar Twilight)" @@
    "heavysnowshowersandthunder_polartwilight" :> "<U+1F30C> Heavy Snow Showers and Thunder (Polar Twilight)" @@
    "lightrainshowers_polartwilight" :> "<U+1F30C> Light Rain Showers (Polar Twilight)" @@
    "heavyrainshowers_polartwilight" :> "<U+1F30C> Heavy Rain Showers (Polar Twilight)" @@
    "lightsleetshowers_polartwilight" :> "<U+1F30C> Light Sleet Showers (Polar Twilight)" @@
    "heavysleetshowers_polartwilight" :> "<U+1F30C> Heavy Sleet Showers (Polar Twilight)" @@
    "lightsnowshowers_polartwilight" :> "<U+1F30C> Light Snow Showers (Polar Twilight)" @@
    "heavysnowshowers_polartwilight" :> "<U+1F30C> Heavy Snow Showers (Polar Twilight)"

TableKeys == DOMAIN DescriptionTable

\* format_weather_description with an empty label for a code it does not know
format_weather_description_blank(c) ==
    IF c \in TableKeys THEN DescriptionTable[c] ELSE ""

format_weather_description(c) ==
    IF c \in TableKeys THEN DescriptionTable[c] ELSE c

----------------------------------------------------------------------------
(* WeatherData::display_compact *)

\* the key of min_by_key: |(timeseries.time - current_time).num_seconds()|
Key(e, now) == Abs(NumSeconds(e.time - now))

RECURSIVE MinScan(_, _, _, _)
\* Iterator::min_by_key as a fold over the rest of the series: the best so
\* far is replaced only by an element whose key is strictly smaller
MinScan(ts, now, i, best) ==
    IF i > Len(ts) THEN best
    ELSE IF Key(ts[i], now) < Key(ts[best], now) THEN MinScan(ts, now, i + 1, i)
    ELSE MinScan(ts, now, i + 1, best)

\* min_by_key keeping the last of several equally small elements
MinByKeyLast(ts, now) ==
    IF Len(ts) = 0 THEN 0
    ELSE CHOOSE i \in 1..Len(ts) :
            /\ \A j \in 1..Len(ts) : Key(ts[i], now) <= Key(ts[j], now)
            /\ \A j \in (i + 1)..Len(ts) : Key(ts[j], now) > Key(ts[i], now)

\* index of the element min_by_key returns; 0 is None (empty series)
MinByKey(ts, now) == IF Len(ts) = 0 THEN 0 ELSE MinScan(ts, now, 2, 1)

\* the Today filter letting later days of the month through
TodayMatchesFrom(e, now) == Day(e.time) >= Day(now)

\* the filters of the three loops
TodayMatches(e, now) == Day(e.time) = Day(now)

\* the Tomorrow filter on the calendar date instead of the day of the month
TomorrowMatchesDate(e, now) == DayIndex(e.time) = DayIndex(now) + 1

TomorrowMatches(e, now) == Day(e.time) = Day(now) + 1

\* the Week filter with its upper bound exclusive
WeekMatchesExclusive(e, now) == Day(e.time) >= Day(now) /\ Day(e.time) < Day(now) + 7

WeekMatches(e, now) == Day(e.time) >= Day(now) /\ Day(e.time) <= Day(now) + 7

Matches(dur, e, now) ==
    CASE dur = "Today" -> TodayMatches(e, now)
      [] dur = "Tomorrow" -> TomorrowMatches(e, now)
      [] dur = "Week" -> WeekMatches(e, now)

\* the Option the branch unwraps for the description
SummaryOf(dur, e) == IF dur = "Week" THEN e.next_12_hours ELSE e.next_1_hours

\* both unwraps of the branch's format! succeed
Unwraps(dur, e) == IsSome(SummaryOf(dur, e)) /\ IsSome(e.air_temperature)

\* the header: "Weather for {} " followed by the branch's first push_str
Header(dur, location_name, now) ==
    CASE dur = "Now" ->
            [fmt |-> "Weather for {} at {}", name |-> location_name,
             date |-> <<>>, hm |-> HourMinute(now)]
      [] dur \in {"Today", "Tomorrow"} ->
            [fmt |-> "Weather for {} on {}", name |-> location_name,
             date |-> LongDate(now), hm |-> <<>>]
      [] dur = "Week" ->
            [fmt |-> "Weather for {} this week", name |-> location_name,
             date |-> <<>>, hm |-> <<>>]

\* the line the branch's format! writes for an entry whose unwraps succeed
Line(dur, e) ==
    CASE dur = "Now" ->
            [fmt |-> "{} {}<U+00B0>C", weekday |-> "", hm |-> <<>>,
             desc |-> format_weather_description(e.next_1_hours[1]),
             temp |-> e.air_temperature[1]]
      [] dur \in {"Today", "Tomorrow"} ->
            [fmt |-> "{}: {} {}<U+00B0>C", weekday |-> "", hm |-> HourMinute(e.time),
             desc |-> format_weather_description(e.next_1_hours[1]),
             temp |-> e.air_temperature[1]]
      [] dur = "Week" ->
            [fmt |-> "{} {}: {} {}C", weekday |-> Weekday(e.time),
             hm |-> HourMinute(e.time),
             desc |-> format_weather_description(e.next_12_hours[1]),
             temp |-> e.air_temperature[1]]

\* outcomes of a call: Ok(output), Err(WeatherError) or a panic that unwinds
\* out of it. at: the entry the Now branch selected, or the entry whose
\* unwrap panicked (0: none)
Ok(out, at) == [kind |-> "Ok", out |-> out, err |-> "", at |-> at]

Err(e) == [kind |-> "Err", out |-> <<>>, err |-> e, at |-> 0]

Panic(at) == [kind |-> "panic", out |-> <<>>, err |-> "", at |-> at]

RECURSIVE LoopUnwrapFirst(_, _, _, _, _)
\* the for loop unwrapping an entry's fields before testing the filter
LoopUnwrapFirst(ts, dur, now, i, out) ==
    IF i > Len(ts) THEN Ok(out, 0)
    ELSE IF ~Unwraps(dur, ts[i]) THEN Panic(i)
    ELSE IF ~Matches(dur, ts[i], now) THEN LoopUnwrapFirst(ts, dur, now, i + 1, out)
    ELSE LoopUnwrapFirst(ts, dur, now, i + 1, Append(out, Line(dur, ts[i])))

RECURSIVE Loop(_, _, _, _, _)
\* the for loop of the Today, Tomorrow and Week branches, from entry i on
Loop(ts, dur, now, i, out) ==
    IF i > Len(ts) THEN Ok(out, 0)
    ELSE IF ~Matches(dur, ts[i], now) THEN Loop(ts, dur, now, i + 1, out)
    ELSE IF ~Unwraps(dur, ts[i]) THEN Panic(i)
    ELSE Loop(ts, dur, now, i + 1, Append(out, Line(dur, ts[i])))

\* the Now branch
NowBranch(ts, location_name, now) ==
    LET closest == MinByKey(ts, now) IN
    IF closest = 0 THEN Panic(0)
    ELSE IF ~Unwraps("Now", ts[closest]) THEN Panic(closest)
    ELSE Ok(<<Header("Now", location_name, now), Line("Now", ts[closest])>>, closest)

display_compact(ts, dur, location_name, now) ==
    IF dur = "Now" THEN NowBranch(ts, location_name, now)
    ELSE Loop(ts, dur, now, 1, <<Header(dur, location_name, now)>>)

display_detailed(ts, dur, location_name, now) == Ok(<<>>, 0)

\* display_complete rendering as the compact mode does
display_complete_compact(ts, dur, location_name, now) ==
    display_compact(ts, dur, location_name, now)

display_complete(ts, dur, location_name, now) == Ok(<<>>, 0)

\* the match of WeatherData::display, before the ? operator
Render(ts, dur, location_name, mode, now) ==
    CASE mode = "Compact" -> display_compact(ts, dur, location_name, now)
      [] mode = "Detailed" -> display_detailed(ts, dur, location_name, now)
      [] mode = "Complete" -> display_complete(ts, dur, location_name, now)

\* <WeatherError as Display>::fmt
ErrorText(e) == CASE e = "MissingData" -> "Missing data"

----------------------------------------------------------------------------
(* Inputs *)

\* the moments a run happens at: mid-month, and the last day of a 30-day month
Clocks == {14 * TicksPerDay + 12 * 60 * 60 * TicksPerSecond,
           119 * TicksPerDay + 12 * 60 * 60 * TicksPerSecond}

\* timestamps of the entries, relative to the clock: 1.5 s before and 1 s
\* after (equal in whole seconds), and 1, 7, 8 and 31 days ahead
Offsets == {-15, 10, TicksPerDay, 7 * TicksPerDay, 8 * TicksPerDay, 31 * TicksPerDay}

\* the Options of an entry that are None
Missing(e) ==
    {f \in {"next_1_hours", "next_12_hours", "air_temperature"} : e[f] = None}

\* Timeseries, with the fields display_compact reads: entries that are
\* complete, lack one of the three fields, or lack all three
Entries(now) ==
    {e \in [time : {now + o : o \in Offsets},
            next_1_hours : {None, Some("clearsky_day")},
            next_12_hours : {None, Some("rain")},
            air_temperature : {None, Some(5)}] : Cardinality(Missing(e)) # 2}

\* GeoCodingData, with the fields main reads
Candidates ==
    {[display_name |-> "Oslo", lat |-> "59.91", lon |-> "10.75"],
     [display_name |-> "Bergen", lat |-> "60.39", lon |-> "5.32"],
     [display_name |-> "Nowhere", lat |-> "", lon |-> "10.75"]}

\* str::parse::<f64>, in hundredths
ParseF64(s) ==
    CASE s = "59.91" -> Some(5991)
      [] s = "10.75" -> Some(1075)
      [] s = "60.39" -> Some(6039)
      [] s = "5.32" -> Some(532)
      [] OTHER -> None

NoResult == [kind |-> "none", out |-> <<>>, err |-> "", at |-> 0]

----------------------------------------------------------------------------
(* main *)

\* args parsed (clap has filled in the defaults), nothing fetched yet
Init ==
    /\ pc = "start"
    /\ duration \in DurationType
    /\ output_mode \in OutputMode
    /\ clock \in Clocks
    /\ geo = <<>>
    /\ coords = None
    /\ series = <<>>
    /\ result = NoResult
    /\ stdout = <<>>
    /\ exit_code = None
    /\ trace = <<>>
    /\ code = ""
    /\ description = None

\* get_location_data: the request or the decoding fails, and ? returns the
\* error from main
GeocodingFails ==
    /\ pc = "start"
    /\ pc' = "exited"
    /\ exit_code' = Some(1)
    /\ trace' = Append(trace, "get_location_data")
    /\ UNCHANGED <<duration, output_mode, clock, geo, coords, series, result,
                   stdout, code, description>>

\* get_location_data returns the decoded candidates (Ok(None) when there are
\* none, Ok(Some(list)) otherwise)
GeocodingReturns ==
    /\ pc = "start"
    /\ \E g \in SeqsUpTo(Candidates, MaxCandidates) : geo' = g
    /\ pc' = "geocoded"
    /\ trace' = Append(trace, "get_location_data")
    /\ UNCHANGED <<duration, output_mode, clock, coords, series, result,
                   stdout, exit_code, code, description>>

\* main keeping the last candidate
LastCandidate(g) == g[Len(g)]

\* the candidate main keeps: unwrap()[0]
FirstCandidate(g) == g[1]

\* get_cooordinates
get_cooordinates(data) == <<ParseF64(data.lat), ParseF64(data.lon)>>

\* main can call get_weather_data: Ok(None).unwrap() and the unwraps of
\* get_cooordinates do not panic
CanFetchWeather ==
    /\ Len(geo) > 0
    /\ IsSome(get_cooordinates(FirstCandidate(geo))[1])
    /\ IsSome(get_cooordinates(FirstCandidate(geo))[2])

\* .unwrap()[0] on no candidate, or get_cooordinates on a latitude or
\* longitude that is no number: main panics before the weather is fetched
CoordinatesPanic ==
    /\ pc = "geocoded"
    /\ ~CanFetchWeather
    /\ coords' = IF Len(geo) > 0 THEN Some(FirstCandidate(geo)) ELSE None
    /\ pc' = "exited"
    /\ exit_code' = Some(101)
    /\ UNCHANGED <<duration, output_mode, clock, geo, series, result, stdout,
                   trace, code, description>>

\* get_weather_data fails: ? returns the error from main
WeatherFails ==
    /\ pc = "geocoded"
    /\ CanFetchWeather
    /\ coords' = Some(FirstCandidate(geo))
    /\ pc' = "exited"
    /\ exit_code' = Some(1)
    /\ trace' = Append(trace, "get_weather_data")
    /\ UNCHANGED <<duration, output_mode, clock, geo, series, result, stdout,
                   code, description>>

\* get_weather_data returns Ok(Some(weather_data))
WeatherReturns ==
    /\ pc = "geocoded"
    /\ CanFetchWeather
    /\ coords' = Some(FirstCandidate(geo))
    /\ \E ts \in SeqsUpTo(Entries(clock), MaxFetched) : series' = ts
    /\ pc' = "fetched"
    /\ trace' = Append(trace, "get_weather_data")
    /\ UNCHANGED <<duration, output_mode, clock, geo, result, stdout,
                   exit_code, code, description>>

\* what WeatherData::display and the match of main leave on standard output
Printed(r) ==
    CASE r.kind = "Ok" -> <<[what |-> "output", text |-> "", lines |-> r.out]>>
      [] r.kind = "Err" -> <<[what |-> "error", text |-> ErrorText(r.err), lines |-> <<>>]>>
      [] r.kind = "panic" -> <<>>

\* the exit status after the call of display: main returns Ok(()), or the
\* panic ends the process
ExitAfter(r) == IF r.kind = "panic" THEN 101 ELSE 0

\* weather_data.display(...) and the rest of main
Display ==
    /\ pc = "fetched"
    /\ LET r == Render(series, duration, coords[1].display_name, output_mode, clock) IN
        /\ result' = r
        /\ stdout' = stdout \o Printed(r)
        /\ exit_code' = Some(ExitAfter(r))
    /\ pc' = "exited"
    /\ trace' = Append(trace, "display")
    /\ UNCHANGED <<duration, output_mode, clock, geo, coords, series, code,
                   description>>

Next ==
    \/ GeocodingFails
    \/ GeocodingReturns
    \/ CoordinatesPanic
    \/ WeatherFails
    \/ WeatherReturns
    \/ Display

Spec == Init /\ [][Next]_vars

----------------------------------------------------------------------------
(* The rendering engine alone: display called on any series *)

InitRender ==
    /\ pc = "fetched"
    /\ duration \in DurationType
    /\ output_mode \in OutputMode
    /\ clock \in Clocks
    /\ geo = <<[display_name |-> "Oslo", lat |-> "59.91", lon |-> "10.75"]>>
    /\ coords = Some(FirstCandidate(geo))
    /\ series \in SeqsUpTo(Entries(clock), MaxLen)
    /\ result = NoResult
    /\ stdout = <<>>
    /\ exit_code = None
    /\ trace = <<"get_location_data", "get_weather_data">>
    /\ code = ""
    /\ description = None

NextRender == Display

SpecRender == InitRender /\ [][NextRender]_vars

----------------------------------------------------------------------------
(* format_weather_description alone *)

\* codes that are no key of the table: the empty string, a key in another
\* case, a key cut short, and the codes the table misspells
UnknownCodes == {"", "Cloudy", "clearsky", "lightsleetshowersandthunder_day",
                 "lightsnowshowersandthunder_night", "partlycloudy_dusk"}

Codes == TableKeys \cup UnknownCodes

InitDescribe ==
    /\ pc = "describe"
    /\ duration = "Now"
    /\ output_mode = "Compact"
    /\ clock = 0
    /\ geo = <<>>
    /\ coords = None
    /\ series = <<>>
    /\ result = NoResult
    /\ stdout = <<>>
    /\ exit_code = None
    /\ trace = <<>>
    /\ code \in Codes
    /\ description = None

Describe ==
    /\ pc = "describe"
    /\ description = None
    /\ description' = Some(format_weather_description(code))
    /\ UNCHANGED <<progVars, code>>

NextDescribe == Describe

SpecDescribe == InitDescribe /\ [][NextDescribe]_vars

----------------------------------------------------------------------------
(* Properties of the rendering engine (SpecRender) *)

\* display has been called in compact mode with duration d
Rendered(d) == pc = "exited" /\ output_mode = "Compact" /\ duration = d

\* distance of an entry from the clock in whole seconds
SecondsApart(e) == Abs(e.time - clock) \div TicksPerSecond

\* the lines display_compact wrote after the header
Body == Tail(result.out)

\* the entries of the series that satisfy F, in series order
Selected(F(_)) == SelectSeq(series, F)

\* the lines of the Today and Tomorrow branches for the entries es
HourlyLines(es) ==
    [k \in 1..Len(es) |->
        [fmt |-> "{}: {} {}<U+00B0>C", weekday |-> "", hm |-> HourMinute(es[k].time),
         desc |-> format_weather_description(es[k].next_1_hours[1]),
         temp |-> es[k].air_temperature[1]]]

\* the lines of the Week branch for the entries es
WeekLines(es) ==
    [k \in 1..Len(es) |->
        [fmt |-> "{} {}: {} {}C", weekday |-> Weekday(es[k].time),
         hm |-> HourMinute(es[k].time),
         desc |-> format_weather_description(es[k].next_12_hours[1]),
         temp |-> es[k].air_temperature[1]]]

OnToday(e) == Day(e.time) = Day(clock)

OnTomorrow(e) == Day(e.time) = Day(clock) + 1

InWeek(e) == Day(clock) <= Day(e.time) /\ Day(e.time) <= Day(clock) + 7

Has1h(e) == e.next_1_hours # None /\ e.air_temperature # None

Has12h(e) == e.next_12_hours # None /\ e.air_temperature # None

\* C1: for duration Now in compact mode on a non-empty series, the entry
\* display_compact selects is one whose distance from the clock in whole seconds
\* is the smallest of the series, and the first such entry in series order.
C1_NearestFirst ==
    (Rendered("Now") /\ series # <<>>) =>
        /\ result.at \in 1..Len(series)
        /\ \A j \in 1..Len(series) :
              SecondsApart(series[result.at]) <= SecondsApart(series[j])
        /\ \A j \in 1..(result.at - 1) :
              SecondsApart(series[j]) > SecondsApart(series[result.at])

\* C1 witness: an entry 1.5 s before the clock followed by one 1 s after it tie
\* in whole seconds, and the first is the one rendered.
C1_Witness ==
    /\ Rendered("Now")
    /\ Len(series) = 2
    /\ series[1].time = clock - 15
    /\ series[2].time = clock + 10
    /\ result.kind = "Ok"
    /\ result.at = 1

\* C2: for duration Now in compact mode, if the nearest entry lacks next1Hour
\* or air_temperature, render returns the error MissingData to its caller.
C2_MissingDataNow ==
    (/\ Rendered("Now")
     /\ series # <<>>
     /\ result.at \in 1..Len(series)
     /\ ~Has1h(series[result.at]))
        => (result.kind = "Err" /\ result.err = "MissingData")

\* C3: for duration Today, Tomorrow or Week in compact mode, if an entry the
\* day filter matches lacks a field the mode requires, the call returns the
\* error MissingData and no partial output.
C3_AllOrNothing ==
    /\ (Rendered("Today") /\ \E i \in 1..Len(series) : OnToday(series[i]) /\ ~Has1h(series[i]))
          => (result.kind = "Err" /\ result.err = "MissingData" /\ result.out = <<>>)
    /\ (Rendered("Tomorrow") /\ \E i \in 1..Len(series) : OnTomorrow(series[i]) /\ ~Has1h(series[i]))
          => (result.kind = "Err" /\ result.err = "MissingData" /\ result.out = <<>>)
    /\ (Rendered("Week") /\ \E i \in 1..Len(series) : InWeek(series[i]) /\ ~Has12h(series[i]))
          => (result.kind = "Err" /\ result.err = "MissingData" /\ result.out = <<>>)

\* C4: for duration Today in compact mode, when every entry on the current
\* day of the month has next1Hour and air_temperature, the output is the header
\* followed by exactly one line per entry on the current day of the month, in
\* series order, and no line for any other entry.
C4_TodayLines ==
    (Rendered("Today") /\ \A i \in 1..Len(series) : OnToday(series[i]) => Has1h(series[i]))
        => /\ result.kind = "Ok"
           /\ Len(result.out) = 1 + Cardinality({i \in 1..Len(series) : OnToday(series[i])})
           /\ Body = HourlyLines(Selected(OnToday))

\* C4 witness: an entry of the current day after an entry of the next day gives
\* the header and one line, the line of the second entry.
C4_Witness ==
    /\ Rendered("Today")
    /\ Len(series) = 2
    /\ series[1].time = clock + TicksPerDay
    /\ series[2].time = clock + 10
    /\ result.kind = "Ok"
    /\ Len(result.out) = 2
    /\ result.out[2].hm = HourMinute(clock + 10)

\* C5: for duration Week in compact mode, when every entry whose day of the
\* month d satisfies current <= d <= current + 7 has next12Hours and
\* air_temperature, the output is the header followed by one line for exactly
\* those entries, in series order, each with the description of the entry's
\* next12Hours code.
C5_WeekLines ==
    (Rendered("Week") /\ \A i \in 1..Len(series) : InWeek(series[i]) => Has12h(series[i]))
        => /\ result.kind = "Ok"
           /\ Body = WeekLines(Selected(InWeek))

\* C5 witness: in mid-month, of an entry 7 days ahead and an entry 8 days
\* ahead only the first is emitted, with the label of its next12Hours code.
C5_Witness ==
    /\ Rendered("Week")
    /\ Day(clock) = 15
    /\ Len(series) = 2
    /\ series[1].time = clock + 7 * TicksPerDay
    /\ series[2].time = clock + 8 * TicksPerDay
    /\ series[1].next_1_hours = Some("clearsky_day")
    /\ series[1].next_12_hours = Some("rain")
    /\ result.kind = "Ok"
    /\ Len(result.out) = 2
    /\ result.out[2].desc = "<U+1F327><U+FE0F> Rain"
    /\ result.out[2].weekday = "Sunday"

\* C6: for output mode Detailed or Complete, display yields the empty string
\* and no error, for every duration and every series.
C6_StubModes ==
    (pc = "exited" /\ output_mode \in {"Detailed", "Complete"})
        => /\ result = Ok(<<>>, 0)
           /\ stdout = <<[what |-> "output", text |-> "", lines |-> <<>>]>>
           /\ exit_code = Some(0)

\* C6 witness: mode Complete with duration Now on a series whose only entry
\* has neither next1Hour nor air_temperature.
C6_Witness ==
    /\ pc = "exited"
    /\ output_mode = "Complete"
    /\ duration = "Now"
    /\ Len(series) = 1
    /\ series[1].next_1_hours = None
    /\ series[1].air_temperature = None
    /\ result.kind = "Ok"

WithinFourWeeks(e) ==
    DayIndex(clock) <= DayIndex(e.time) /\ DayIndex(e.time) <= DayIndex(clock) + 27

Nearest(i) ==
    /\ \A j \in 1..Len(series) : SecondsApart(series[i]) <= SecondsApart(series[j])
    /\ \A j \in 1..(i - 1) : SecondsApart(series[j]) > SecondsApart(series[i])

\* entry i is one the active duration selects
SelectedBy(d, i) ==
    CASE d = "Now" -> Nearest(i)
      [] d = "Today" -> OnToday(series[i])
      [] d = "Tomorrow" -> OnTomorrow(series[i])
      [] d = "Week" -> InWeek(series[i])

\* the entry with every field present, the absent ones filled in
Complete(e) ==
    [time |-> e.time,
     next_1_hours |-> IF e.next_1_hours = None THEN Some("clearsky_day") ELSE e.next_1_hours,
     next_12_hours |-> IF e.next_12_hours = None THEN Some("rain") ELSE e.next_12_hours,
     air_temperature |-> IF e.air_temperature = None THEN Some(5) ELSE e.air_temperature]

\* the series with the entries the duration d does not select made complete
CompleteOutside(d) ==
    [i \in 1..Len(series) |-> IF SelectedBy(d, i) THEN series[i] ELSE Complete(series[i])]

\* the fields the duration d unwraps are present in entry e
Required(d, e) == IF d = "Week" THEN Has12h(e) ELSE Has1h(e)

\* C11: in compact mode, fields missing from entries the duration does not
\* select do not change the outcome: the call gives what it gives on the same
\* series with those entries complete, and it succeeds whenever every selected
\* entry has the fields its branch requires (for Now, on a non-empty series).
C11_UnselectedIgnored ==
    \A d \in DurationType :
        Rendered(d) =>
            /\ result = display_compact(CompleteOutside(d), d, coords[1].display_name, clock)
            /\ ((d = "Now" => series # <<>>) /\
                \A i \in 1..Len(series) : SelectedBy(d, i) => Required(d, series[i]))
                  => result.kind = "Ok"

\* C11 witness: Today on a series whose first entry, dated the next day, has no
\* field at all and whose second entry, of the current day, is complete: the
\* call succeeds with the line of the second entry.
C11_Witness ==
    /\ Rendered("Today")
    /\ Len(series) = 2
    /\ series[1].time = clock + TicksPerDay
    /\ Missing(series[1]) = {"next_1_hours", "next_12_hours", "air_temperature"}
    /\ series[2].time = clock + 10
    /\ Missing(series[2]) = {}
    /\ result.kind = "Ok"
    /\ Len(result.out) = 2

----------------------------------------------------------------------------
(* Properties of format_weather_description (SpecDescribe) *)

\* C7: format_weather_description returns a string for every code, and the
\* code itself for every code that is no key of the table.
C7_DescribeTotal ==
    description # None =>
        /\ description[1] \in STRING
        /\ code \notin TableKeys => description[1] = code

\* C7 witness: a code the table does not hold has been described.
C7_Witness ==
    /\ code = "lightsleetshowersandthunder_day"
    /\ description = Some("lightsleetshowersandthunder_day")

----------------------------------------------------------------------------
(* Properties of main (Spec) *)

Calls == {trace[k] : k \in 1..Len(trace)}

\* a selected entry lacked a field its branch unwraps
RenderFailed == pc = "exited" /\ "display" \in Calls /\ result.kind # "Ok"

\* C8: when the render call fails for missing data, the program prints
\* "Missing data" to standard output and exits with status 0.
C8_FailurePrinted ==
    RenderFailed =>
        /\ stdout = <<[what |-> "error", text |-> "Missing data", lines |-> <<>>]>>
        /\ exit_code = Some(0)

\* C9: the calls of a run are a prefix of geocoding fetch, weather fetch,
\* display; the weather fetch happens only with at least one candidate, whose
\* first is the one used; a failed fetch or an empty candidate list ends the run
\* without display.
C9_RunOrder ==
    /\ \E n \in 0..3 :
          trace = SubSeq(<<"get_location_data", "get_weather_data", "display">>, 1, n)
    /\ "get_weather_data" \in Calls =>
          (Len(geo) >= 1 /\ coords = Some(geo[1]))
    /\ "display" \in Calls =>
          (pc = "exited" /\ exit_code # Some(1) /\ result.kind # "none")
    /\ result.kind # "none" => "display" \in Calls
    /\ exit_code = Some(1) => (pc = "exited" /\ "display" \notin Calls)
    /\ (pc # "start" /\ Len(geo) = 0) => Calls \subseteq {"get_location_data"}

\* C9 witness: a run with two candidates went through all three calls and
\* rendered the first candidate's name.
C9_Witness ==
    /\ pc = "exited"
    /\ trace = <<"get_location_data", "get_weather_data", "display">>
    /\ Len(geo) = 2
    /\ geo[1].display_name = "Bergen"
    /\ geo[2].display_name = "Oslo"
    /\ result.kind = "Ok"
    /\ output_mode = "Compact"
    /\ result.out[1].name = "Bergen"

====
